---- MODULE Spec2Model ----
(***************************************************************************)
(* Model of mcp_server (src/mcp_server/src/main.rs): the WordIndex engine  *)
(* (new / search / fetch), the JSON-RPC handlers built on it and the       *)
(* startup / listener / shutdown sequence of main.                         *)
(*                                                                         *)
(* Text is a sequence of Unicode scalar values (Rust `char`), written as   *)
(* code points: 97 'a', 65 'A', 33 '!', 32 ' ', 931 GREEK CAPITAL SIGMA,   *)
(* 963 GREEK SMALL SIGMA, 962 GREEK SMALL FINAL SIGMA.                     *)
(* Option<T> is a sequence of length at most one.                          *)
(***************************************************************************)
EXTENDS Integers, Sequences, FiniteSets, TLC

\* ------------------------------------------------------------------ bounds
MaxLines == 2
MaxQueryLen == 3
MaxAddrs == 2
MaxLineNumber == 3
MaxCalls == 2

\* --------------------------------------------------------- input alphabets
\* Characters a query may be made of: "a", "A", "!", " " and "σ" (lower and
\* upper ASCII letter, punctuation, whitespace, a non-ASCII letter).
Chars == {97, 65, 33, 32, 963}

\* Lines a corpus file may contain: blank, "a σ a" and "A! ! aΣ" (two words
\* of which one is repeated; upper case with punctuation, a punctuation-only
\* word and a capital sigma at the end of a word).
LineSet ==
  { << >>,
    <<97, 32, 963, 32, 97>>,
    <<65, 33, 32, 33, 32, 97, 931>> }

\* Address strings given on the command line: one that parses as a
\* SocketAddr and one that does not.
AddrStrs == {"127.0.0.1:3030", "localhost"}

\* ------------------------------------------------------------------ Option
None == << >>
Some(x) == <<x>>

Range(s) == {s[i] : i \in 1..Len(s)}

RECURSIVE SeqsUpTo(_, _)
SeqsUpTo(S, n) ==
  IF n = 0 THEN {<< >>}
  ELSE LET shorter == SeqsUpTo(S, n - 1)
       IN shorter \cup {Append(s, x) : s \in {t \in shorter : Len(t) = n - 1}, x \in S}

Queries == SeqsUpTo(Chars, MaxQueryLen)
Files == SeqsUpTo(LineSet, MaxLines)
AddrLists == SeqsUpTo(AddrStrs, MaxAddrs)

\* ------------------------------------------------------- char primitives
\* char::is_whitespace (White_Space), restricted to the Basic Latin block.
is_whitespace(c) == c \in {9, 10, 11, 12, 13, 32}

\* char::is_alphanumeric (Alphabetic or Numeric) on Basic Latin and the
\* basic Greek letters.
is_alphanumeric(c) ==
  \/ c \in 48..57
  \/ c \in 65..90
  \/ c \in 97..122
  \/ c \in 913..929
  \/ c \in 931..937
  \/ c \in 945..969

\* core::unicode::Cased on the same blocks.
Cased(c) ==
  \/ c \in 65..90
  \/ c \in 97..122
  \/ c \in 913..929
  \/ c \in 931..937
  \/ c \in 945..969

\* core::unicode::Case_Ignorable on Basic Latin: apostrophe, full stop,
\* colon, circumflex, grave accent.
Case_Ignorable(c) == c \in {39, 46, 58, 94, 96}

\* conversions::to_lower for one char (every char of these blocks maps to
\* exactly one char).
to_lower(c) ==
  IF c \in 65..90 THEN c + 32
  ELSE IF c \in 913..929 \/ c \in 931..937 THEN c + 32
  ELSE c

\* case_ignorable_then_cased over the chars of `word` at positions
\* i, i+step, ... : skip Case_Ignorable chars, then test Cased.
RECURSIVE case_ignorable_then_cased(_, _, _)
case_ignorable_then_cased(word, i, step) ==
  IF i < 1 \/ i > Len(word) THEN FALSE
  ELSE IF Case_Ignorable(word[i]) THEN case_ignorable_then_cased(word, i + step, step)
  ELSE Cased(word[i])

\* str::to_lowercase's only contextual mapping: capital sigma becomes final
\* sigma (962) when preceded by a cased letter and not followed by one.
map_uppercase_sigma(word, i) ==
  IF /\ case_ignorable_then_cased(word, i - 1, -1)
     /\ ~case_ignorable_then_cased(word, i + 1, 1)
  THEN 962 ELSE 963

to_lowercase_identity(word) == word

to_lowercase(word) ==
  [i \in 1..Len(word) |->
     IF word[i] = 931 THEN map_uppercase_sigma(word, i) ELSE to_lower(word[i])]

\* str::split_whitespace: the maximal runs of non-whitespace chars, in order.
RECURSIVE split_from(_, _, _)
split_from(s, i, cur) ==
  IF i > Len(s) THEN (IF cur = << >> THEN << >> ELSE <<cur>>)
  ELSE IF is_whitespace(s[i])
       THEN (IF cur = << >> THEN << >> ELSE <<cur>>) \o split_from(s, i + 1, << >>)
       ELSE split_from(s, i + 1, Append(cur, s[i]))

split_whitespace(s) == split_from(s, 1, << >>)

\* The closure of the .map(...) at lines 84-89 and 103-108.
normalize(word) == SelectSeq(to_lowercase(word), is_alphanumeric)

\* split_whitespace().map(normalize).filter(|w| !w.is_empty())
NonEmpty(w) == w # << >>

tokens_keep_empty(text) ==
  LET raw == split_whitespace(text)
  IN [i \in 1..Len(raw) |-> normalize(raw[i])]

tokens(text) ==
  LET raw == split_whitespace(text)
  IN SelectSeq([i \in 1..Len(raw) |-> normalize(raw[i])], NonEmpty)

\* ------------------------------------------------------------ WordIndex
\* index.entry(word).or_default().push(line_num)
entry_push(index, word, line_num) ==
  IF word \in DOMAIN index
  THEN [index EXCEPT ![word] = Append(@, line_num)]
  ELSE [w \in DOMAIN index \cup {word} |-> IF w = word THEN <<line_num>> ELSE index[w]]

\* for word in words { index.entry(word).or_default().push(line_num); }
RECURSIVE index_line(_, _, _)
index_line(index, words, line_num) ==
  IF words = << >> THEN index
  ELSE index_line(entry_push(index, Head(words), line_num), Tail(words), line_num)

EmptyIndex == [w \in {} |-> << >>]

\* WordIndex::new on a file that is read to its end (lines 69-97).
RECURSIVE build_index(_, _)
build_index(f, n) ==
  IF n = 0 THEN EmptyIndex
  ELSE index_line(build_index(f, n - 1), tokens(f[n]), n - 1)

WordIndex_new(f) == [lines |-> f, index |-> build_index(f, Len(f))]

\* existing_set.retain(|line_num| current_word_set.contains(line_num))
retain_union(existing_set, current_word_set) == existing_set \cup current_word_set

retain_keep_existing(existing_set, current_word_set) == existing_set

retain(existing_set, current_word_set) == existing_set \cap current_word_set

\* The for loop of search (lines 121-138): early is TRUE when a word is not
\* a key of the index and the function returns Vec::new() at once.
RECURSIVE search_loop_skip_missing(_, _, _)
search_loop_skip_missing(index, query_words, result_line_nums) ==
  IF query_words = << >> THEN [early |-> FALSE, acc |-> result_line_nums]
  ELSE LET word == Head(query_words)
       IN IF word \in DOMAIN index
          THEN LET current_word_set == Range(index[word])
               IN search_loop_skip_missing(index, Tail(query_words),
                    IF result_line_nums # None
                    THEN Some(retain(result_line_nums[1], current_word_set))
                    ELSE Some(current_word_set))
          ELSE search_loop_skip_missing(index, Tail(query_words), result_line_nums)

RECURSIVE search_loop(_, _, _)
search_loop(index, query_words, result_line_nums) ==
  IF query_words = << >> THEN [early |-> FALSE, acc |-> result_line_nums]
  ELSE LET word == Head(query_words)
       IN IF word \in DOMAIN index
          THEN LET current_word_set == Range(index[word])
               IN search_loop(index, Tail(query_words),
                    IF result_line_nums # None
                    THEN Some(retain(result_line_nums[1], current_word_set))
                    ELSE Some(current_word_set))
          ELSE [early |-> TRUE, acc |-> None]

\* final_set.into_iter().collect(): a HashSet yields its elements in an
\* unspecified order, so every enumeration is a possible Vec.
into_iter_collect(final_set) ==
  {v \in [1..Cardinality(final_set) -> final_set] :
     \A i, j \in 1..Cardinality(final_set) : i # j => v[i] # v[j]}

\* sort_unstable on Vec<usize>: insertion sort, ascending.
RECURSIVE insert_sorted(_, _)
insert_sorted(sorted, x) ==
  IF sorted = << >> THEN <<x>>
  ELSE IF x <= Head(sorted) THEN <<x>> \o sorted
  ELSE <<Head(sorted)>> \o insert_sorted(Tail(sorted), x)

RECURSIVE sort_rec(_, _)
sort_rec(v, acc) ==
  IF v = << >> THEN acc ELSE sort_rec(Tail(v), insert_sorted(acc, Head(v)))

sort_unstable_noop(v) == v

sort_unstable(v) == sort_rec(v, << >>)

\* WordIndex::search: the set of Vecs the call may return (one per
\* iteration order of the final HashSet).
search_all_on_empty(self, query) ==
  LET query_words == tokens(query)
  IN IF query_words = << >>
     THEN {[i \in 1..Len(self.lines) |-> i - 1]}
     ELSE LET r == search_loop(self.index, query_words, None)
          IN IF r.early THEN {<< >>}
             ELSE IF r.acc # None
                  THEN {sort_unstable(v) : v \in into_iter_collect(r.acc[1])}
                  ELSE {<< >>}

search(self, query) ==
  LET query_words == tokens(query)
  IN IF query_words = << >>
     THEN {<< >>}
     ELSE LET r == search_loop(self.index, query_words, None)
          IN IF r.early THEN {<< >>}
             ELSE IF r.acc # None
                  THEN {sort_unstable(v) : v \in into_iter_collect(r.acc[1])}
                  ELSE {<< >>}

\* WordIndex::fetch: Vec indices are 0-based, sequences 1-based.
fetch_off_by_one(self, line_number) ==
  IF line_number + 1 < Len(self.lines)
  THEN Some(self.lines[line_number + 2])
  ELSE None

fetch(self, line_number) ==
  IF line_number < Len(self.lines)
  THEN Some(self.lines[line_number + 1])
  ELSE None

\* ------------------------------------------------------------- JSON-RPC
\* serde_json values that occur in request parameters.
JString(q) == [t |-> "String", v |-> q]
JNumber(n) == [t |-> "Number", v |-> <<n>>]

\* jsonrpc_core ErrorCode::InvalidParams.code() and ErrorCode::ServerError(-32001)
InvalidParams == -32602
InvalidRecordId == -32001

RpcOk(value) == [ok |-> TRUE, val |-> value, code |-> 0]
RpcErr(c) == [ok |-> FALSE, val |-> << >>, code |-> c]

\* params.parse::<(String,)>() and params.parse::<(usize,)>(): a one-element
\* array of the right type; usize takes no negative number.
parse_string_1(params) ==
  IF Len(params) = 1 /\ params[1].t = "String" THEN Some(params[1].v) ELSE None

parse_usize_1(params) ==
  IF Len(params) = 1 /\ params[1].t = "Number" /\ params[1].v[1] >= 0
  THEN Some(params[1].v[1]) ELSE None

\* std::net::SocketAddr::from_str
parse_socket_addr(addr_str) == addr_str = "127.0.0.1:3030"

\* A thread of a server that runs no handler.
IdleCall ==
  [stage |-> "idle", listener |-> 0, method |-> "", arg |-> << >>,
   query_words |-> << >>, result_line_nums |-> None, result |-> None]

IdleCalls == [c \in 1..MaxCalls |-> IdleCall]

\* ------------------------------------------------------------------ state
VARIABLES
  pc,              \* position of main: "start", "open", "read", "bind", "wait",
                   \* "shutdown", "exited"
  file,            \* db.txt: the lines the reader will yield
  addresses,       \* cli.addresses not yet taken by the listener loop
  lines,           \* WordIndex::new local `lines`
  index,           \* WordIndex::new local `index`
  word_index,      \* Option<Arc<WordIndex>> shared with the handlers
  server_handles,  \* addresses of the servers started so far
  exit_code,       \* Option<i32>: status the process ended with
  resp,            \* Option: the request being answered and its response
  bind_log,        \* what the listener loop logged for each address it took
  calls            \* handler invocations running on the servers' threads

vars == <<pc, file, addresses, lines, index, word_index, server_handles, exit_code, resp,
          bind_log, calls>>

\* The handlers never read the address list and the listener loop never
\* reads the corpus, so files of several lines are explored with at most one
\* address and lists of several addresses with files of at most one line.
Init ==
  /\ pc = "start"
  /\ file \in Files
  /\ addresses \in AddrLists
  /\ (Len(file) <= 1 \/ Len(addresses) <= 1)
  /\ lines = << >>
  /\ index = EmptyIndex
  /\ word_index = None
  /\ server_handles = << >>
  /\ exit_code = None
  /\ resp = None
  /\ bind_log = << >>
  /\ calls = IdleCalls

\* ------------------------------------------------------------------- main
\* lines 187-190: no address given -> exit(1)
NoAddresses ==
  /\ pc = "start"
  /\ addresses = << >>
  /\ pc' = "exited"
  /\ exit_code' = Some(1)
  /\ UNCHANGED <<file, addresses, lines, index, word_index, server_handles, resp, bind_log, calls>>

\* lines 192-193: call WordIndex::new("db.txt")
BeginLoad ==
  /\ pc = "start"
  /\ addresses # << >>
  /\ pc' = "open"
  /\ UNCHANGED <<file, addresses, lines, index, word_index, server_handles, exit_code, resp, bind_log, calls>>

\* line 72, File::open succeeds: lines and index start empty
OpenOk ==
  /\ pc = "open"
  /\ pc' = "read"
  /\ lines' = << >>
  /\ index' = EmptyIndex
  /\ UNCHANGED <<file, addresses, word_index, server_handles, exit_code, resp, bind_log, calls>>

\* line 72, File::open fails: `?` returns Err, main logs and exits (195-198)
OpenErr ==
  /\ pc = "open"
  /\ pc' = "exited"
  /\ exit_code' = Some(1)
  /\ UNCHANGED <<file, addresses, lines, index, word_index, server_handles, resp, bind_log, calls>>

\* lines 78-95, one iteration of the loop over reader.lines()
ReadLineOk ==
  /\ pc = "read"
  /\ Len(lines) < Len(file)
  /\ LET line_num == Len(lines)
         line == file[line_num + 1]
     IN /\ lines' = Append(lines, line)
        /\ index' = index_line(index, tokens(line), line_num)
  /\ UNCHANGED <<pc, file, addresses, word_index, server_handles, exit_code, resp, bind_log, calls>>

\* line 79 as it would be if the error were swallowed and the lines read so
\* far were served.
ReadLineErr_continue ==
  /\ pc = "read"
  /\ Len(lines) <= Len(file)
  /\ word_index' = Some([lines |-> lines, index |-> index])
  /\ pc' = "bind"
  /\ UNCHANGED <<file, addresses, lines, index, server_handles, exit_code, resp, bind_log, calls>>

\* line 79, line_result is Err: `?` returns Err, main logs and exits (195-198)
ReadLineErr ==
  /\ pc = "read"
  /\ Len(lines) <= Len(file)
  /\ pc' = "exited"
  /\ exit_code' = Some(1)
  /\ UNCHANGED <<file, addresses, lines, index, word_index, server_handles, resp, bind_log, calls>>

\* line 96 and 194: end of file, Ok(WordIndex { lines, index }) is wrapped in
\* an Arc; lines 202-308 register the handlers on it.
LoadOk ==
  /\ pc = "read"
  /\ Len(lines) = Len(file)
  /\ word_index' = Some([lines |-> lines, index |-> index])
  /\ pc' = "bind"
  /\ UNCHANGED <<file, addresses, lines, index, server_handles, exit_code, resp, bind_log, calls>>

\* lines 310-332, one iteration: the address does not parse (328-330)
BindParseErr ==
  /\ pc = "bind"
  /\ addresses # << >>
  /\ ~parse_socket_addr(Head(addresses))
  /\ addresses' = Tail(addresses)
  /\ UNCHANGED <<pc, file, lines, index, word_index, server_handles, exit_code, resp, calls>>
  /\ bind_log' = Append(bind_log, [addr |-> Head(addresses), outcome |-> "invalid"])

\* lines 323-325 as they would be if a failed start ended the process.
BindStartErr_abort ==
  /\ pc = "bind"
  /\ addresses # << >>
  /\ parse_socket_addr(Head(addresses))
  /\ pc' = "exited"
  /\ exit_code' = Some(1)
  /\ resp' = None
  /\ bind_log' = Append(bind_log, [addr |-> Head(addresses), outcome |-> "start_failed"])
  /\ UNCHANGED <<file, addresses, lines, index, word_index, server_handles, calls>>

\* lines 310-332, one iteration: start_http fails (323-325)
BindStartErr ==
  /\ pc = "bind"
  /\ addresses # << >>
  /\ parse_socket_addr(Head(addresses))
  /\ addresses' = Tail(addresses)
  /\ UNCHANGED <<pc, file, lines, index, word_index, server_handles, exit_code, resp, calls>>
  /\ bind_log' = Append(bind_log, [addr |-> Head(addresses), outcome |-> "start_failed"])

\* lines 310-332, one iteration: the server starts (319-322)
BindOk ==
  /\ pc = "bind"
  /\ addresses # << >>
  /\ parse_socket_addr(Head(addresses))
  /\ addresses' = Tail(addresses)
  /\ server_handles' = Append(server_handles, Head(addresses))
  /\ UNCHANGED <<pc, file, lines, index, word_index, exit_code, resp, calls>>
  /\ bind_log' = Append(bind_log, [addr |-> Head(addresses), outcome |-> "listening"])

\* lines 334-337: no server started, main returns Ok(())
NoServers ==
  /\ pc = "bind"
  /\ addresses = << >>
  /\ server_handles = << >>
  /\ pc' = "exited"
  /\ exit_code' = Some(0)
  /\ UNCHANGED <<file, addresses, lines, index, word_index, server_handles, resp, bind_log, calls>>

\* lines 339-340: main awaits ctrl_c
Serve ==
  /\ pc = "bind"
  /\ addresses = << >>
  /\ server_handles # << >>
  /\ pc' = "wait"
  /\ UNCHANGED <<file, addresses, lines, index, word_index, server_handles, exit_code, resp, bind_log, calls>>

\* line 340 as it would be if main returned as soon as it reached the wait.
CtrlC_no_wait ==
  /\ pc = "wait"
  /\ pc' = "exited"
  /\ exit_code' = Some(0)
  /\ resp' = None
  /\ calls' = IdleCalls
  /\ UNCHANGED <<file, addresses, lines, index, word_index, server_handles, bind_log>>

\* lines 340-341: the interrupt arrives and ctrl_c().await yields Ok
CtrlC ==
  /\ pc = "wait"
  /\ pc' = "shutdown"
  /\ UNCHANGED <<file, addresses, lines, index, word_index, server_handles, exit_code, resp,
                 bind_log, calls>>

\* line 340: ctrl_c() yields Err (the signal listener cannot be registered),
\* `?` returns it from main and the process ends with a failure status; the
\* servers end with the process and responses not yet written are lost
CtrlCErr ==
  /\ pc = "wait"
  /\ pc' = "exited"
  /\ exit_code' = Some(1)
  /\ resp' = None
  /\ calls' = IdleCalls
  /\ UNCHANGED <<file, addresses, lines, index, word_index, server_handles, bind_log>>

\* line 348: main returns Ok(()); the servers end with the process and
\* responses not yet written are lost
Shutdown ==
  /\ pc = "shutdown"
  /\ pc' = "exited"
  /\ exit_code' = Some(0)
  /\ resp' = None
  /\ calls' = IdleCalls
  /\ UNCHANGED <<file, addresses, lines, index, word_index, server_handles, bind_log>>

\* ------------------------------------------------------------- handlers
\* A started server accepts requests from its own threads as soon as
\* start_http returns and until the process ends, while main is still in
\* the loop, waiting, or on its way out.
Accepting == pc \in {"bind", "wait", "shutdown"} /\ server_handles # << >>

\* The response computed by a handler is written back to the caller.
Reply ==
  /\ resp # None
  /\ resp' = None
  /\ UNCHANGED <<pc, file, addresses, lines, index, word_index, server_handles, exit_code, bind_log, calls>>

\* lines 206-229
RpcSearch(params) ==
  /\ Accepting
  /\ resp = None
  /\ LET wi == word_index[1]
         parsed == parse_string_1(params)
     IN IF parsed # None
        THEN \E results \in search(wi, parsed[1]) :
               resp' = Some([method |-> "search", params |-> params, result |-> RpcOk(results)])
        ELSE resp' = Some([method |-> "search", params |-> params, result |-> RpcErr(InvalidParams)])
  /\ UNCHANGED <<pc, file, addresses, lines, index, word_index, server_handles, exit_code, bind_log, calls>>

\* lines 285-292 as they would be if an out-of-bounds line number were
\* reported with the invalid-parameters code.
RpcFetch_invalid_params(params) ==
  /\ Accepting
  /\ resp = None
  /\ LET wi == word_index[1]
         parsed == parse_usize_1(params)
         got == IF parsed # None THEN fetch(wi, parsed[1]) ELSE None
     IN IF got # None
        THEN resp' = Some([method |-> "fetch", params |-> params, result |-> RpcOk(got[1])])
        ELSE resp' = Some([method |-> "fetch", params |-> params, result |-> RpcErr(InvalidParams)])
  /\ UNCHANGED <<pc, file, addresses, lines, index, word_index, server_handles, exit_code, bind_log, calls>>

\* lines 273-306
RpcFetch(params) ==
  /\ Accepting
  /\ resp = None
  /\ LET wi == word_index[1]
         parsed == parse_usize_1(params)
     IN IF parsed # None
        THEN LET got == fetch(wi, parsed[1])
             IN IF got # None
                THEN resp' = Some([method |-> "fetch", params |-> params, result |-> RpcOk(got[1])])
                ELSE resp' = Some([method |-> "fetch", params |-> params, result |-> RpcErr(InvalidRecordId)])
        ELSE resp' = Some([method |-> "fetch", params |-> params, result |-> RpcErr(InvalidParams)])
  /\ UNCHANGED <<pc, file, addresses, lines, index, word_index, server_handles, exit_code, bind_log, calls>>

\* The queries clients send: every query when one address was requested,
\* the queries of at most one char when several were.
Workload ==
  IF Len(bind_log) + Len(addresses) <= 1 THEN Queries ELSE SeqsUpTo(Chars, 1)

SearchRequest == \E q \in Workload : RpcSearch(<<JString(q)>>)
SearchBadRequest == \E p \in {<< >>, <<JNumber(0)>>, <<JString(<<97>>), JString(<<97>>)>>} : RpcSearch(p)
FetchRequest == \E n \in 0..MaxLineNumber : RpcFetch(<<JNumber(n)>>)
FetchBadRequest == \E p \in {<< >>, <<JString(<<97>>)>>, <<JNumber(-1)>>} : RpcFetch(p)

Next ==
  \/ NoAddresses
  \/ BeginLoad
  \/ OpenOk
  \/ OpenErr
  \/ ReadLineOk
  \/ ReadLineErr
  \/ LoadOk
  \/ BindParseErr
  \/ BindStartErr
  \/ BindOk
  \/ NoServers
  \/ Serve
  \/ CtrlC
  \/ CtrlCErr
  \/ Shutdown
  \/ SearchRequest
  \/ SearchBadRequest
  \/ FetchRequest
  \/ FetchBadRequest
  \/ Reply

Spec == Init /\ [][Next]_vars

\* Between the interrupt (line 341) and the return (line 348) main only
\* logs: it does not wait on anything, so the return is not postponed
\* forever.
FairSpec == Spec /\ WF_vars(Shutdown)

\* ------------------------------------------------- concurrent handlers
\* Every server runs a clone of the handler and every clone holds the same
\* Arc<WordIndex> (lines 205-207, 272-274, 314), so the calls of all
\* listeners read the one word_index. A call advances one read of the
\* shared index at a time, and calls[c] holds the locals of call c.
ConcQueries == { <<963, 32, 97>>, <<65>>, <<33>>, <<97, 963>> }
ConcLineNumbers == {0, MaxLines}
ConcFiles == { << <<97, 32, 963, 32, 97>>, <<65, 33, 32, 33, 32, 97, 931>> >> }
ConcAddrLists ==
  { << >>, <<"localhost", "127.0.0.1:3030">>, <<"127.0.0.1:3030", "127.0.0.1:3030">> }

\* lines 210-213 and 101-117: the handler parses the query, search computes
\* query_words and returns at once when there is none
CallSearch(c, l, query) ==
  /\ Accepting
  /\ calls[c].stage = "idle"
  /\ LET query_words == tokens(query)
     IN calls' = [calls EXCEPT ![c] =
          IF query_words = << >>
          THEN [stage |-> "done", listener |-> l, method |-> "search", arg |-> query,
                query_words |-> << >>, result_line_nums |-> None,
                result |-> Some(RpcOk(<< >>))]
          ELSE [stage |-> "loop", listener |-> l, method |-> "search", arg |-> query,
                query_words |-> query_words, result_line_nums |-> None,
                result |-> None]]
  /\ UNCHANGED <<pc, file, addresses, lines, index, word_index, server_handles, exit_code,
                 resp, bind_log>>

\* lines 121-138 as they would be if the retained line numbers were stored
\* back into the entry of the shared index.
CallSearchWord_retain_in_place(c) ==
  /\ calls[c].stage = "loop"
  /\ calls[c].query_words # << >>
  /\ LET wi == word_index[1]
         word == Head(calls[c].query_words)
         existing == calls[c].result_line_nums
     IN IF word \in DOMAIN wi.index
        THEN LET current_word_set == Range(wi.index[word])
                 kept == IF existing # None
                         THEN retain(existing[1], current_word_set)
                         ELSE current_word_set
             IN /\ calls' = [calls EXCEPT ![c].query_words = Tail(@),
                                          ![c].result_line_nums = Some(kept)]
                /\ word_index' = Some([wi EXCEPT !.index[word] =
                                        SelectSeq(@, LAMBDA n : n \in kept)])
        ELSE /\ calls' = [calls EXCEPT ![c].stage = "done",
                                       ![c].result = Some(RpcOk(<< >>))]
             /\ word_index' = word_index
  /\ UNCHANGED <<pc, file, addresses, lines, index, server_handles, exit_code, resp, bind_log>>

\* lines 121-138, one iteration of the loop over query_words: the word is
\* looked up in the shared index
CallSearchWord(c) ==
  /\ calls[c].stage = "loop"
  /\ calls[c].query_words # << >>
  /\ LET wi == word_index[1]
         word == Head(calls[c].query_words)
         existing == calls[c].result_line_nums
     IN IF word \in DOMAIN wi.index
        THEN LET current_word_set == Range(wi.index[word])
             IN calls' = [calls EXCEPT ![c].query_words = Tail(@),
                                       ![c].result_line_nums =
                                          IF existing # None
                                          THEN Some(retain(existing[1], current_word_set))
                                          ELSE Some(current_word_set)]
        ELSE calls' = [calls EXCEPT ![c].stage = "done",
                                    ![c].result = Some(RpcOk(<< >>))]
  /\ UNCHANGED <<pc, file, addresses, lines, index, word_index, server_handles, exit_code,
                 resp, bind_log>>

\* lines 140-148 and 215-217: the loop is over, the final set is collected,
\* sorted and returned as a JSON array
CallSearchCollect(c) ==
  /\ calls[c].stage = "loop"
  /\ calls[c].query_words = << >>
  /\ LET final_set == calls[c].result_line_nums
     IN IF final_set # None
        THEN \E v \in into_iter_collect(final_set[1]) :
               calls' = [calls EXCEPT ![c].stage = "done",
                                      ![c].result = Some(RpcOk(sort_unstable(v)))]
        ELSE calls' = [calls EXCEPT ![c].stage = "done",
                                    ![c].result = Some(RpcOk(<< >>))]
  /\ UNCHANGED <<pc, file, addresses, lines, index, word_index, server_handles, exit_code,
                 resp, bind_log>>

\* lines 277-293 and 151-161: the handler parses the line number and fetch
\* reads the shared lines
CallFetch(c, l, line_number) ==
  /\ Accepting
  /\ calls[c].stage = "idle"
  /\ LET got == fetch(word_index[1], line_number)
     IN calls' = [calls EXCEPT ![c] =
          [stage |-> "done", listener |-> l, method |-> "fetch", arg |-> <<line_number>>,
           query_words |-> << >>, result_line_nums |-> None,
           result |-> IF got # None THEN Some(RpcOk(got[1]))
                      ELSE Some(RpcErr(InvalidRecordId))]]
  /\ UNCHANGED <<pc, file, addresses, lines, index, word_index, server_handles, exit_code,
                 resp, bind_log>>

\* The handler's future completes and the response is written to the caller.
CallReturn(c) ==
  /\ calls[c].stage = "done"
  /\ calls' = [calls EXCEPT ![c] = IdleCall]
  /\ UNCHANGED <<pc, file, addresses, lines, index, word_index, server_handles, exit_code,
                 resp, bind_log>>

Listeners == 1..Len(server_handles)

SearchCall == \E c \in 1..MaxCalls, l \in Listeners, q \in ConcQueries : CallSearch(c, l, q)
SearchWordStep == \E c \in 1..MaxCalls : CallSearchWord(c)
SearchCollectStep == \E c \in 1..MaxCalls : CallSearchCollect(c)
FetchCall == \E c \in 1..MaxCalls, l \in Listeners, n \in ConcLineNumbers : CallFetch(c, l, n)
ReturnStep == \E c \in 1..MaxCalls : CallReturn(c)

InitConc ==
  /\ pc = "start"
  /\ file \in ConcFiles
  /\ addresses \in ConcAddrLists
  /\ lines = << >>
  /\ index = EmptyIndex
  /\ word_index = None
  /\ server_handles = << >>
  /\ exit_code = None
  /\ resp = None
  /\ bind_log = << >>
  /\ calls = IdleCalls

NextConc ==
  \/ NoAddresses
  \/ BeginLoad
  \/ OpenOk
  \/ OpenErr
  \/ ReadLineOk
  \/ ReadLineErr
  \/ LoadOk
  \/ BindParseErr
  \/ BindStartErr
  \/ BindOk
  \/ NoServers
  \/ Serve
  \/ CtrlC
  \/ CtrlCErr
  \/ Shutdown
  \/ SearchCall
  \/ SearchWordStep
  \/ SearchCollectStep
  \/ FetchCall
  \/ ReturnStep

SpecConc == InitConc /\ [][NextConc]_vars

\* ------------------------------------------------------------ properties
\* Vocabulary of the properties, stated without the code's own pipeline.
Wi == word_index[1]
Req == resp[1]
IsSearchOk == resp # None /\ Req.method = "search" /\ Req.result.ok
Query == Req.params[1].v
Results == Req.result.val

\* Tokens that the words of a line (or query) produce after normalization.
Produced(text) == {normalize(w) : w \in Range(split_whitespace(text))} \ {<< >>}

\* Line numbers of the corpus.
LineNumbers(wi) == 0..(Len(wi.lines) - 1)

StrictlyAscending(v) == \A i, j \in 1..Len(v) : i < j => v[i] < v[j]

\* C1: a search whose query normalizes to at least one token returns exactly
\* the line numbers whose line produces every query token.
C1_SearchExact ==
  (IsSearchOk /\ Produced(Query) # {}) =>
     Range(Results) = {n \in LineNumbers(Wi) : Produced(Query) \subseteq Produced(Wi.lines[n + 1])}

\* C1 witness: a two-token query that matches some line and misses another.
C1_Witness ==
  /\ IsSearchOk
  /\ Cardinality(Produced(Query)) = 2
  /\ Results # << >>
  /\ Len(Results) < Len(Wi.lines)

\* A token: a non-empty word that normalization leaves as it is.
IsToken(w) == w # << >> /\ split_whitespace(w) = <<w>> /\ normalize(w) = w

\* C2: for tokens A and B, search("A B") is the ascending sequence of the
\* lines common to search("A") and search("B").
C2_Conjunctive ==
  IsSearchOk =>
    LET words == split_whitespace(Query)
    IN (/\ Len(words) = 2
        /\ IsToken(words[1]) /\ IsToken(words[2])
        /\ Query = words[1] \o <<32>> \o words[2]) =>
          \A ra \in search(Wi, words[1]), rb \in search(Wi, words[2]) :
            /\ Range(Results) = Range(ra) \cap Range(rb)
            /\ StrictlyAscending(Results)

\* C2 witness: search("a σ") answered where "a" alone matches more lines.
C2_Witness ==
  /\ IsSearchOk
  /\ Query = <<97, 32, 963>>
  /\ Results # << >>
  /\ \E ra \in search(Wi, <<97>>) : Len(ra) > Len(Results)

\* C3: every search result is strictly ascending, hence free of duplicates.
C3_Ascending == IsSearchOk => StrictlyAscending(Results)

\* C3 witness: the repeated query "a a" answered with two lines, the first of
\* which holds the token twice.
C3_Witness ==
  /\ IsSearchOk
  /\ Query = <<97, 32, 97>>
  /\ Len(Results) = 2
  /\ Wi.lines[1] = <<97, 32, 963, 32, 97>>

NoDuplicates(v) == \A i, j \in 1..Len(v) : i # j => v[i] # v[j]

\* C4: the index built by WordIndex::new holds each line number at most once
\* per token.
C4_NoDuplicateLineNumbers ==
  word_index # None => \A t \in DOMAIN Wi.index : NoDuplicates(Wi.index[t])

\* C5: the built index is exact: stored line numbers are valid, the keys are
\* the tokens some line produces, line n is under t iff line n produces t,
\* and the empty string is not a key.
C5_IndexExact ==
  word_index # None =>
    /\ \A t \in DOMAIN Wi.index : Range(Wi.index[t]) \subseteq LineNumbers(Wi)
    /\ DOMAIN Wi.index = UNION {Produced(Wi.lines[n + 1]) : n \in LineNumbers(Wi)}
    /\ \A t \in DOMAIN Wi.index : \A n \in LineNumbers(Wi) :
         n \in Range(Wi.index[t]) <=> t \in Produced(Wi.lines[n + 1])
    /\ << >> \notin DOMAIN Wi.index
    /\ (\A n \in LineNumbers(Wi) : Wi.lines[n + 1] = << >>) => Wi.index = EmptyIndex

\* C5 witness: an index with two keys built from a file that also has a line
\* producing no token.
C5_Witness ==
  /\ word_index # None
  /\ Cardinality(DOMAIN Wi.index) >= 2
  /\ \E n \in LineNumbers(Wi) : Produced(Wi.lines[n + 1]) = {}

\* C6: a query with a token that is no key of the index gets the empty result.
C6_UnknownToken ==
  (IsSearchOk /\ \E t \in Produced(Query) : t \notin DOMAIN Wi.index) => Results = << >>

\* C6 witness: a known token followed by an unknown one.
C6_Witness ==
  /\ IsSearchOk
  /\ Len(tokens(Query)) = 2
  /\ tokens(Query)[1] \in DOMAIN Wi.index
  /\ tokens(Query)[2] \notin DOMAIN Wi.index

\* C7: a query that normalizes to no token is answered with the empty
\* sequence as a success.
C7_EmptyQuery ==
  (resp # None /\ Req.method = "search" /\ parse_string_1(Req.params) # None
     /\ Produced(Req.params[1].v) = {}) =>
       Req.result.ok /\ Req.result.val = << >>

\* C7 witness: a punctuation-only query answered on a corpus with a token.
C7_Witness ==
  /\ IsSearchOk
  /\ Query = <<33>>
  /\ DOMAIN Wi.index # {}

\* The letter of the other case (capital/small), or the char itself.
OtherCase(c) ==
  IF c \in 65..90 \/ c \in 913..929 \/ c \in 931..937 THEN c + 32
  ELSE IF c = 962 THEN 931
  ELSE IF c \in 97..122 \/ c \in 945..969 THEN c - 32
  ELSE c

RemoveAt(q, i) == [k \in 1..(Len(q) - 1) |-> IF k < i THEN q[k] ELSE q[k + 1]]
InsertAt(q, i, c) ==
  [k \in 1..(Len(q) + 1) |-> IF k < i THEN q[k] ELSE IF k = i THEN c ELSE q[k - 1]]

\* Non-alphanumeric chars that are not whitespace (they stay inside a word).
Punctuation == {c \in Chars : ~is_alphanumeric(c) /\ ~is_whitespace(c)}

\* The queries one step away from q: one letter in the other case, one
\* punctuation char removed, or one punctuation char added.  Two queries
\* whose words differ only in case or punctuation are linked by such steps.
Variants(q) ==
  {[q EXCEPT ![i] = OtherCase(q[i])] : i \in 1..Len(q)}
    \cup {RemoveAt(q, i) : i \in {k \in 1..Len(q) : q[k] \in Punctuation}}
    \cup (IF Len(q) < MaxQueryLen
          THEN {InsertAt(q, i, c) : i \in 1..(Len(q) + 1), c \in Punctuation}
          ELSE {})

\* Two words with the same letters up to case, punctuation aside.
SameLetters(u, v) ==
  LET su == SelectSeq(u, is_alphanumeric)
      sv == SelectSeq(v, is_alphanumeric)
  IN /\ Len(su) = Len(sv)
     /\ su # << >>
     /\ \A i \in 1..Len(su) : su[i] = sv[i] \/ su[i] = OtherCase(sv[i])

\* A corpus word and a one-word query with the same letters match: the
\* line of the word is among the results.
WordMatches(wi, query, results) ==
  \A n \in LineNumbers(wi) : \A w \in Range(split_whitespace(wi.lines[n + 1])) :
    (split_whitespace(query) = <<query>> /\ SameLetters(w, query)) => n \in Range(results)

IsAscii(text) == \A i \in 1..Len(text) : text[i] < 128

\* C8 as stated: a query that differs from the answered one only in case or
\* punctuation gets the same result, and a corpus word matches a query
\* word with the same letters.
C8_CaseAndPunctuation ==
  IsSearchOk =>
    /\ \A q2 \in Variants(Query) : search(Wi, q2) = {Results}
    /\ WordMatches(Wi, Query, Results)

\* C8 amended: the same for queries and corpus words of ASCII characters.
C8_AsciiCaseAndPunctuation ==
  (IsSearchOk /\ IsAscii(Query)) =>
    /\ \A q2 \in Variants(Query) : IsAscii(q2) => search(Wi, q2) = {Results}
    /\ \A n \in LineNumbers(Wi) : \A w \in Range(split_whitespace(Wi.lines[n + 1])) :
         (IsAscii(w) /\ split_whitespace(Query) = <<Query>> /\ SameLetters(w, Query))
            => n \in Range(Results)

\* C8 witness: the query "A" finds the line "A! ! aΣ" and the line "a σ a".
C8_Witness ==
  /\ IsSearchOk
  /\ Query = <<65>>
  /\ Wi.lines = << <<65, 33, 32, 33, 32, 97, 931>>, <<97, 32, 963, 32, 97>> >>
  /\ Results = <<0, 1>>

IsFetch == resp # None /\ Req.method = "fetch"

\* C9: a fetch of line number i on a corpus of L lines yields the stored
\* text of line i when i < L and the not-found outcome when i >= L, and
\* leaves the process running.
C9_FetchBounds ==
  [][ (resp = None /\ resp' # None /\ resp'[1].method = "fetch"
         /\ parse_usize_1(resp'[1].params) # None) =>
        LET i == parse_usize_1(resp'[1].params)[1]
            L == Len(word_index[1].lines)
            result == resp'[1].result
        IN /\ i < L => (result.ok /\ result.val = file[i + 1])
           /\ i >= L => (~result.ok /\ result.code = InvalidRecordId)
           /\ pc' = pc /\ exit_code' = None /\ word_index' = word_index ]_vars

\* C9 witness: the last line of a two-line corpus fetched, and it is blank.
C9_Witness ==
  /\ IsFetch
  /\ Req.params = <<JNumber(1)>>
  /\ Len(Wi.lines) = 2
  /\ Req.result = RpcOk(<< >>)

\* C10: listeners and handled requests exist only after a successful
\* construction, which holds the whole file; a failed construction leaves
\* no index, no listener and no handled request.
C10_ReadyBeforeServing ==
  /\ (server_handles # << >> \/ resp # None) =>
        /\ word_index # None
        /\ Wi.lines = file
        /\ DOMAIN Wi.index = UNION {Produced(file[k]) : k \in 1..Len(file)}
        /\ \A t \in DOMAIN Wi.index :
             Range(Wi.index[t]) = {n \in LineNumbers(Wi) : t \in Produced(file[n + 1])}
  /\ word_index = None => (server_handles = << >> /\ resp = None /\ pc \notin {"bind", "wait"})
  /\ (pc = "exited" /\ word_index = None) => exit_code = Some(1)

\* C10 witness: a request answered by a listener on a two-line corpus while
\* main is still starting listeners.
C10_Witness ==
  /\ pc = "bind"
  /\ server_handles # << >>
  /\ resp # None
  /\ Len(file) = 2
  /\ Wi.lines = file


\* ------------------------------------------------------- startup, shutdown
\* The addresses of cli.addresses in the order given: those the loop has
\* taken, followed by those it has not reached yet.
Requested == [i \in 1..Len(bind_log) |-> bind_log[i].addr] \o addresses

\* Positions of the requested addresses that bound successfully.
Bound == {i \in 1..Len(bind_log) : bind_log[i].outcome = "listening"}

\* The last address the loop has taken failed to parse or to bind.
LastFailed(log) == log # << >> /\ log[Len(log)].outcome # "listening"

\* C11: a bind failure is not fatal. No step drops a requested address; a
\* step on which an address fails to parse or to bind skips just that
\* address and stays in the loop with the process alive; the loop is left
\* only when every address was attempted, for the serving state if and only
\* if at least one address bound and for the end of the process if and only
\* if none did.
C11_BindFailureNonFatal ==
  [][ /\ Requested' = Requested
      /\ (bind_log' # bind_log /\ LastFailed(bind_log'))
            => /\ pc' = "bind"
               /\ exit_code' = None
               /\ addresses' = Tail(addresses)
               /\ server_handles' = server_handles
      /\ (pc = "bind" /\ pc' # "bind")
            => /\ addresses = << >>
               /\ Len(server_handles) = Cardinality(Bound)
               /\ (pc' = "wait" <=> Bound # {})
               /\ (pc' = "exited" <=> Bound = {}) ]_vars

\* A failed address followed by one that bound, and the process serving.
C11_Witness ==
  /\ pc = "wait"
  /\ Len(bind_log) = 2
  /\ bind_log[1].outcome = "start_failed"
  /\ bind_log[2].outcome = "listening"

\* C12: a run in which no address binds ends like a run whose corpus cannot
\* be loaded or that was given no address: whenever the process has ended
\* without a bound address, its exit status is the non-zero one.
C12_NoBindExitsLikeLoadFailure ==
  (pc = "exited" /\ Bound = {}) => (exit_code # None /\ exit_code[1] # 0)

\* C13 as stated: once an address has bound the process ends only after the
\* interrupt was received, and after the interrupt it eventually ends with
\* the successful exit status.
C13_ServesUntilInterrupt ==
  /\ [][ (Bound # {} /\ pc # "exited" /\ pc' = "exited") => pc = "shutdown" ]_vars
  /\ (pc = "shutdown") ~> (pc = "exited" /\ exit_code = Some(0))

\* C13: once an address has bound the process ends only after the interrupt
\* was received, then with the successful exit status, or because waiting
\* for the interrupt itself failed, then with the failure status; after the
\* interrupt it eventually ends with the successful exit status.
C13_ServesUntilInterruptOrWaitError ==
  /\ [][ (Bound # {} /\ pc # "exited" /\ pc' = "exited")
            => \/ pc = "shutdown" /\ exit_code' = Some(0)
               \/ pc = "wait" /\ exit_code' = Some(1) ]_vars
  /\ (pc = "shutdown") ~> (pc = "exited" /\ exit_code = Some(0))

\* The process served, received the interrupt and ended cleanly.
C13_Witness ==
  /\ pc = "exited"
  /\ Bound # {}
  /\ exit_code = Some(0)

\* -------------------------------------------------------- fetch signals
\* The params of a request are one JSON number that is an unsigned integer.
WellFormedLineNumber(params) ==
  /\ Len(params) = 1
  /\ params[1] \in {JNumber(n) : n \in 0..MaxLineNumber}

\* C14: the three outcomes of a fetch request have three distinct signals.
\* A well-formed request for line i of a corpus of L lines is answered with
\* the text of line i when i < L and with the error of code -32001, not the
\* invalid-parameters error, when i >= L; a request whose parameter is
\* missing or malformed is answered with the invalid-parameters error; the
\* step that answers leaves the process and its listeners running.
C14_FetchSignals ==
  [][ (resp = None /\ resp' # None /\ resp'[1].method = "fetch") =>
        LET params == resp'[1].params
            result == resp'[1].result
            L == Len(file)
        IN /\ WellFormedLineNumber(params) =>
                LET i == params[1].v[1]
                IN /\ i < L => result = RpcOk(file[i + 1])
                   /\ i >= L => (result = RpcErr(InvalidRecordId) /\ result # RpcErr(InvalidParams))
           /\ ~WellFormedLineNumber(params) => result = RpcErr(InvalidParams)
           /\ pc' = pc /\ pc' # "exited"
           /\ exit_code' = None
           /\ server_handles' = server_handles ]_vars

\* A fetch of line 1 on a one-line corpus answered with the error -32001.
C14_Witness ==
  /\ IsFetch
  /\ Req.params = <<JNumber(1)>>
  /\ Len(file) = 1
  /\ Req.result = RpcErr(InvalidRecordId)
  /\ pc = "wait"

\* ------------------------------------------------------- no interference
\* What a call returns when it runs alone on the index freshly built from
\* the file.
Alone(method, arg) ==
  IF method = "search"
  THEN {RpcOk(v) : v \in search(WordIndex_new(file), arg)}
  ELSE LET got == fetch(WordIndex_new(file), arg[1])
       IN {IF got # None THEN RpcOk(got[1]) ELSE RpcErr(InvalidRecordId)}

\* C15: once built, the corpus and the index stay as construction left
\* them whatever calls run, and every call that completes, however its
\* steps interleave with the steps of other calls on any listener, returns
\* what it would return running alone on the freshly built index.
C15_NoInterference ==
  /\ word_index # None => word_index[1] = WordIndex_new(file)
  /\ \A c \in 1..MaxCalls :
        calls[c].stage = "done" =>
          calls[c].result[1] \in Alone(calls[c].method, calls[c].arg)

\* A search on one listener has returned both lines while a search on the
\* other listener is between its two words.
C15_Witness ==
  /\ calls[1].stage = "done"
  /\ calls[1].arg = <<65>>
  /\ calls[1].result = Some(RpcOk(<<0, 1>>))
  /\ calls[2].stage = "loop"
  /\ calls[2].query_words = <<<<97>>>>
  /\ calls[2].result_line_nums = Some({0})
  /\ calls[1].listener # calls[2].listener

====
